---- MODULE Spec2Model ----
(***************************************************************************)
(* Halloween Costume Voting: the Flask/SQLite application of               *)
(* src/halloween_voting_app.py as a state machine.                         *)
(*                                                                         *)
(* The Store is the SQLite database (tables categories, entries, settings, *)
(* votes, vote_items and the AUTOINCREMENT counters), the upload directory *)
(* and, per browser session, the Flask session cookie.  Each request is an *)
(* action; a handler that runs several database transactions is one action *)
(* per transaction, with pc[s] holding the position of session s's request *)
(* in flight, so that requests of different sessions interleave as they do *)
(* under a threaded or multi-process server.  A browser session sends one  *)
(* request at a time.                                                      *)
(*                                                                         *)
(* Text (voter names, category names, costume names, form fields) is a     *)
(* sequence of character codes, so that strip(), LOWER() and int() are     *)
(* computed as Python and SQLite compute them.                             *)
(***************************************************************************)
EXTENDS Integers, Sequences, FiniteSets, TLC

(***************************************************************************)
(* Text helpers                                                            *)
(***************************************************************************)

\* str.strip(): whitespace characters removed at both ends.
IsSpace(c) == c \in {9, 10, 11, 12, 13, 32}

RECURSIVE LStrip(_)
LStrip(str) ==
    IF str # <<>> /\ IsSpace(Head(str)) THEN LStrip(Tail(str)) ELSE str

RECURSIVE RStrip(_)
RStrip(str) ==
    IF str # <<>> /\ IsSpace(str[Len(str)])
    THEN RStrip(SubSeq(str, 1, Len(str) - 1))
    ELSE str

Strip(str) == RStrip(LStrip(str))

\* SQLite's built-in LOWER(): folds the ASCII letters A-Z only.
SqlLowerAscii(str) ==
    [i \in 1..Len(str) |-> IF str[i] \in 65..90 THEN str[i] + 32 ELSE str[i]]

LOWER(str) == SqlLowerAscii(str)

\* Case folding of the text itself (Python's str.lower() on Latin-1 text):
\* what "the same name up to case" means for a voter.
CaseFold(str) ==
    [i \in 1..Len(str) |->
        IF str[i] \in 65..90 \/ (str[i] \in 192..222 /\ str[i] # 215)
        THEN str[i] + 32
        ELSE str[i]]

\* int(): a string of decimal digits parses; anything else raises ValueError.
IsInt(str) == str # <<>> /\ \A i \in 1..Len(str) : str[i] \in 48..57

RECURSIVE ToInt(_)
ToInt(str) ==
    IF str = <<>> THEN 0
    ELSE 10 * ToInt(SubSeq(str, 1, Len(str) - 1)) + (str[Len(str)] - 48)

\* SQLite's BINARY collation: bytewise comparison, a proper prefix first.
TextLess(a, b) ==
    \E i \in 1..Len(b) :
        /\ \A j \in 1..(i - 1) : j <= Len(a) /\ a[j] = b[j]
        /\ (i > Len(a) \/ a[i] < b[i])

(***************************************************************************)
(* Configuration and inputs                                                *)
(***************************************************************************)

ADMIN_PASSWORD == "changeme"

\* The categories init_db seeds, in insertion order.
DefaultCategories ==
    << <<77, 111, 115, 116, 32, 82, 101, 97, 108, 105, 115, 116, 105, 99, 32,
         67, 111, 115, 116, 117, 109, 101>>,               \* Most Realistic Costume
       <<70, 117, 110, 110, 105, 101, 115, 116, 32, 67, 111, 115, 116, 117,
         109, 101>>,                                       \* Funniest Costume
       <<83, 99, 97, 114, 105, 101, 115, 116, 32, 67, 111, 115, 116, 117, 109,
         101>>,                                            \* Scariest Costume
       <<66, 101, 115, 116, 32, 72, 111, 109, 101, 109, 97, 100, 101, 32, 67,
         111, 115, 116, 117, 109, 101>>,                   \* Best Homemade Costume
       <<76, 101, 97, 115, 116, 32, 69, 102, 102, 111, 114, 116, 32, 67, 111,
         115, 116, 117, 109, 101>>,                        \* Least Effort Costume
       <<67, 108, 97, 115, 115, 105, 99, 32, 72, 97, 108, 108, 111, 119, 101,
         101, 110, 32, 67, 111, 115, 116, 117, 109, 101>>, \* Classic Halloween Costume
       <<67, 117, 116, 101, 115, 116, 32, 67, 111, 115, 116, 117, 109,
         101>> >>                                          \* Cutest Costume

\* Bounds of the model.
MaxVotes == 2
MaxEntries == 2
MaxCatSeq == 15

\* Browser sessions: the voters' and the admin's browsers.
Sessions == {"s1", "s2"}

\* Form inputs.
Blank == <<32>>                              \* " "
LowerA == <<32, 97>>                         \* " a"
UpperA == <<65>>                             \* "A"
LowerE == <<233>>                            \* e acute, lower case
UpperE == <<201>>                            \* E acute, upper case
Choice1 == <<49>>                            \* "1"
Choice2 == <<50>>                            \* "2"
ChoiceX == <<120>>                           \* "x"
Person == <<88>>                             \* "X"
Bat == <<66, 97, 116>>                       \* "Bat"
Zed == <<32, 90, 101, 100>>                  \* " Zed"
Png == <<112, 46, 112, 110, 103>>            \* "p.png"

VARIABLES
    categories,      \* table categories: rows [id, name, enabled]
    catSeq,          \* AUTOINCREMENT counter of categories
    entries,         \* table entries: rows [id, first_name, last_name, costume_name, photo_path, created_at]
    entrySeq,        \* AUTOINCREMENT counter of entries
    uploads,         \* files in UPLOAD_DIR
    uploadSeq,       \* names given to uploaded files so far (timestamp and random token)
    voting_enabled,  \* settings row 'voting_enabled': "0", "1", or "none" when the row is missing
    votes,           \* table votes: rows [id, voter_first, voter_last, created_at]
    voteSeq,         \* AUTOINCREMENT counter of votes
    vote_items,      \* table vote_items: rows [vote_id, category_id, entry_id]
    session,         \* per browser session: [admin, voter_first, voter_last, ballot]
    pc,              \* per browser session: position of its request in flight
    local,           \* per browser session: locals of its request in flight
    resp,            \* the last response sent: [s, h, r, d], session, handler,
                     \* result, and in d what the handler read or deleted
    shown            \* per browser session: the wizard step page its last
                     \* response displays, {[idx, category_id]}, or {}

vars == <<categories, catSeq, entries, entrySeq, uploads, uploadSeq, voting_enabled,
          votes, voteSeq, vote_items, session, pc, local, resp, shown>>

store == <<categories, catSeq, entries, entrySeq, uploads, uploadSeq, voting_enabled,
           votes, voteSeq, vote_items>>

\* A session key that is not set; session.get(key, "") reads it as "".
Absent == <<>>
\* session.get("ballot", {}) of a session without ballot.
EmptyBallot == [c \in {} |-> 0]

NoSession == [admin |-> FALSE, voter_first |-> Absent, voter_last |-> Absent,
              ballot |-> EmptyBallot]

\* The locals of a request: toggle_voting's current, entry_submit's fields.
NoLocal == [current |-> "", first_name |-> <<>>, last_name |-> <<>>,
            costume_name |-> <<>>, photo_path |-> 0]

(***************************************************************************)
(* Database helpers                                                        *)
(***************************************************************************)

\* init_db, run by ensure_db before every request: the categories table is
\* seeded when it is empty, the voting_enabled row when it is missing.
\* AUTOINCREMENT ids continue from the counter, whatever was deleted.
SeedRows(seq) ==
    {[id |-> seq + i, name |-> DefaultCategories[i], enabled |-> TRUE] :
        i \in 1..Len(DefaultCategories)}

InitDbCategories == IF categories = {} THEN SeedRows(catSeq) ELSE categories

InitDbCatSeq ==
    IF categories = {} THEN catSeq + Len(DefaultCategories) ELSE catSeq

InitDbSetting == IF voting_enabled = "none" THEN "0" ELSE voting_enabled

\* The request can be served within the bounds of the model.
EnsureOk == categories # {} \/ catSeq + Len(DefaultCategories) <= MaxCatSeq

\* ensure_db of a handler that writes neither categories nor settings itself.
EnsureDb ==
    /\ categories' = InitDbCategories
    /\ catSeq' = InitDbCatSeq
    /\ voting_enabled' = InitDbSetting

\* get_setting("voting_enabled", "0") != "1", read after ensure_db.
\* A handler that never refuses.
GateAlwaysOpen == TRUE

VotingOpen == InitDbSetting = "1"

\* _enabled_categories(): SELECT id, name FROM categories WHERE enabled=1
\* ORDER BY name, as the sequence of rows.
EnabledRows(cats) == {c \in cats : c.enabled}

Rank(c, rows) == Cardinality({d \in rows : TextLess(d.name, c.name)}) + 1

OrderByName(rows) ==
    [i \in 1..Cardinality(rows) |-> CHOOSE c \in rows : Rank(c, rows) = i]

EnabledCategories(cats) == OrderByName(EnabledRows(cats))

\* datetime.utcnow().isoformat() as a logical time per table: the number
\* of rows inserted into the table so far (created_at is only compared
\* within one table).
UtcNow(seq) == seq

\* WHERE LOWER(voter_first)=LOWER(?) AND LOWER(voter_last)=LOWER(?)
SameVoter(v, first, last) ==
    /\ LOWER(v.voter_first) = LOWER(first)
    /\ LOWER(v.voter_last) = LOWER(last)

Existing(first, last) == {v \in votes : SameVoter(v, first, last)}

(***************************************************************************)
(* Responses and request bookkeeping                                       *)
(***************************************************************************)

\* The response replaces what the browser of s displays: the category form
\* of a wizard step (vote_step's page) or some other page.
ReplyWith(s, h, r, d) ==
    /\ resp' = [s |-> s, h |-> h, r |-> r, d |-> d]
    /\ shown' = [shown EXCEPT ![s] = IF h = "vote_step" /\ r = "page" THEN d ELSE {}]

Reply(s, h, r) == ReplyWith(s, h, r, {})

Idle(s) == pc[s] = "idle"

Goto(s, at) == pc' = [pc EXCEPT ![s] = at]

\* Requests in flight that will still insert a vote / an entry.
VotesInFlight == Cardinality({t \in Sessions : pc[t] = "finish_insert"})
EntriesInFlight == Cardinality({t \in Sessions : pc[t] = "entry_insert"})

(***************************************************************************)
(* Voting wizard                                                           *)
(***************************************************************************)

\* POST /vote/name
vote_name_post(s, first, last) ==
    /\ Idle(s) /\ EnsureOk /\ EnsureDb
    /\ IF ~VotingOpen
       THEN /\ Reply(s, "vote_name_post", "403")
            /\ UNCHANGED session
       ELSE IF Strip(first) = <<>> \/ Strip(last) = <<>>
       THEN /\ Reply(s, "vote_name_post", "to_name_error")
            /\ UNCHANGED session
       ELSE /\ session' = [session EXCEPT ![s].voter_first = Strip(first),
                                          ![s].voter_last = Strip(last)]
            /\ ReplyWith(s, "vote_name_post", "to_step", {[idx |-> 0]})
    /\ UNCHANGED <<entries, entrySeq, uploads, uploadSeq, votes, voteSeq, vote_items, pc, local>>

\* GET /vote/step/<idx>
vote_step(s, idx) ==
    /\ Idle(s) /\ EnsureOk /\ EnsureDb
    /\ LET cats == EnabledCategories(InitDbCategories) IN
       IF ~VotingOpen THEN Reply(s, "vote_step", "closed")
       ELSE IF cats = <<>> THEN Reply(s, "vote_step", "no_categories")
       ELSE IF idx < 0 \/ idx >= Len(cats) THEN Reply(s, "vote_step", "to_name")
       ELSE ReplyWith(s, "vote_step", "page",
                      {[idx |-> idx, category_id |-> cats[idx + 1].id]})
    /\ UNCHANGED <<entries, entrySeq, uploads, uploadSeq, votes, voteSeq, vote_items,
                   session, pc, local>>

\* ballot[str(current_cat["id"])] = int(choice), ValueError ignored
StoreChoice(ballot, cat_id, choice) ==
    IF IsInt(choice)
    THEN [c \in DOMAIN ballot \cup {cat_id} |->
            IF c = cat_id THEN ToInt(choice) ELSE ballot[c]]
    ELSE ballot

\* A "next" that wraps around to the first step.
StepNavWrap(nav, idx, n) ==
    IF nav = "prev" THEN (IF idx > 0 THEN [to |-> "step", idx |-> idx - 1]
                                     ELSE [to |-> "name", idx |-> 0])
    ELSE IF nav = "next" THEN [to |-> "step", idx |-> (idx + 1) % n]
    ELSE [to |-> "finish", idx |-> 0]

\* The redirect of a step POST.
StepNav(nav, idx, n) ==
    IF nav = "prev" THEN (IF idx > 0 THEN [to |-> "step", idx |-> idx - 1]
                                     ELSE [to |-> "name", idx |-> 0])
    ELSE IF nav = "next"
         THEN [to |-> "step", idx |-> IF n - 1 < idx + 1 THEN n - 1 ELSE idx + 1]
    ELSE [to |-> "finish", idx |-> 0]

\* The response records the request it answers (from, nav) beside the
\* redirect's target.
GatedStepPost(s, idx, choice, nav) ==
    LET cats == EnabledCategories(InitDbCategories) IN
    IF ~VotingOpen
    THEN /\ Reply(s, "vote_step_post", "403")
         /\ UNCHANGED session
    ELSE IF cats = <<>>
    THEN /\ Reply(s, "vote_step_post", "to_home_error")
         /\ UNCHANGED session
    ELSE IF idx < 0 \/ idx >= Len(cats)
    THEN /\ ReplyWith(s, "vote_step_post", "to_name", {[from |-> idx, nav |-> nav]})
         /\ UNCHANGED session
    ELSE /\ session' =
              IF choice # <<>>
              THEN [session EXCEPT ![s].ballot =
                        StoreChoice(session[s].ballot, cats[idx + 1].id, choice)]
              ELSE session
         /\ LET n == StepNav(nav, idx, Len(cats)) IN
            IF n.to = "step"
            THEN ReplyWith(s, "vote_step_post", "to_step",
                           {[idx |-> n.idx, from |-> idx, nav |-> nav]})
            ELSE ReplyWith(s, "vote_step_post",
                           IF n.to = "name" THEN "to_name" ELSE "to_finish",
                           {[from |-> idx, nav |-> nav]})

\* POST /vote/step/<idx>
vote_step_post(s, idx, choice, nav) ==
    /\ Idle(s) /\ EnsureOk /\ EnsureDb
    /\ GatedStepPost(s, idx, choice, nav)
    /\ UNCHANGED <<entries, entrySeq, uploads, uploadSeq, votes, voteSeq, vote_items, pc, local>>

\* A name check that lets every draft through.
NamesNeverMissing(sess) == FALSE

\* if not voter_first or not voter_last (each read with session.get(k, "")
\* and stripped)
NamesMissing(sess) ==
    Strip(sess.voter_first) = <<>> \/ Strip(sess.voter_last) = <<>>

\* GET /vote/finish, up to the name check: the setting is read in a
\* transaction of its own, the names from the session.
vote_finish(s) ==
    /\ Idle(s) /\ EnsureOk /\ EnsureDb
    /\ IF ~VotingOpen
       THEN /\ Reply(s, "vote_finish", "403")
            /\ UNCHANGED pc
       ELSE IF NamesMissing(session[s])
       THEN /\ Reply(s, "vote_finish", "to_name_error")
            /\ UNCHANGED pc
       ELSE /\ Goto(s, "finish_select")
            /\ UNCHANGED <<resp, shown>>
    /\ UNCHANGED <<entries, entrySeq, uploads, uploadSeq, votes, voteSeq, vote_items,
                   session, local>>

\* vote_finish: SELECT id FROM votes WHERE ..., run in autocommit before the
\* INSERT opens the write transaction.  On a match the handler returns from
\* inside the with block: the session keys are not popped.
vote_finish_select(s) ==
    /\ pc[s] = "finish_select"
    /\ \/ Existing(Strip(session[s].voter_first), Strip(session[s].voter_last)) # {}
       \/ voteSeq + VotesInFlight < MaxVotes
    /\ IF Existing(Strip(session[s].voter_first), Strip(session[s].voter_last)) # {}
       THEN /\ ReplyWith(s, "vote_finish", "duplicate",
                         Existing(Strip(session[s].voter_first),
                                  Strip(session[s].voter_last)))
            /\ Goto(s, "idle")
       ELSE /\ Goto(s, "finish_insert")
            /\ UNCHANGED <<resp, shown>>
    /\ UNCHANGED <<store, session, local>>

\* The INSERT INTO vote_items of one category: skipped when the ballot has
\* no (truthy) selection, swallowed when the entry does not exist (the
\* foreign key fails); the category was read under the write lock.
ItemInsertedNoFk(ballot, c, ents) ==
    /\ c.id \in DOMAIN ballot
    /\ ballot[c.id] # 0

ItemInserted(ballot, c, ents) ==
    /\ c.id \in DOMAIN ballot
    /\ ballot[c.id] # 0
    /\ \E e \in ents : e.id = ballot[c.id]

\* Every category, enabled or not.
AllCategories(cats) == cats

\* cats = _enabled_categories(), read while the write transaction is open.
FinishCategories(cats) == EnabledRows(cats)

FinishItems(vote_id, cats, ballot, ents) ==
    {[vote_id |-> vote_id, category_id |-> c.id, entry_id |-> ballot[c.id]] :
        c \in {d \in FinishCategories(cats) : ItemInserted(ballot, d, ents)}}

\* session.clear(): every key goes, the admin flag too.
ClearSession(sess) == NoSession

\* session.pop(k, None) for the three voting keys.
PopDraft(sess) ==
    [sess EXCEPT !.voter_first = Absent, !.voter_last = Absent,
                 !.ballot = EmptyBallot]

\* vote_finish: the write transaction (INSERT INTO votes, the vote_items of
\* the enabled categories, commit), then the session keys are popped.
vote_finish_insert(s) ==
    /\ pc[s] = "finish_insert"
    /\ LET vote_id == voteSeq + 1 IN
       /\ votes' = votes \cup
            {[id |-> vote_id,
              voter_first |-> Strip(session[s].voter_first),
              voter_last |-> Strip(session[s].voter_last),
              created_at |-> UtcNow(voteSeq)]}
       /\ voteSeq' = vote_id
       /\ vote_items' = vote_items \cup
            FinishItems(vote_id, categories, session[s].ballot, entries)
    /\ session' = [session EXCEPT ![s] = PopDraft(session[s])]
    /\ ReplyWith(s, "vote_finish", "recorded", {session[s]})
    /\ Goto(s, "idle")
    /\ UNCHANGED <<categories, catSeq, entries, entrySeq, uploads, uploadSeq,
                   voting_enabled, local>>

(***************************************************************************)
(* Public pages and entry submission                                       *)
(***************************************************************************)

\* GET /: a request that only reads (ensure_db runs before it).
home(s) ==
    /\ Idle(s) /\ EnsureOk /\ EnsureDb
    /\ Reply(s, "home", "page")
    /\ UNCHANGED <<entries, entrySeq, uploads, uploadSeq, votes, voteSeq,
                   vote_items, session, pc, local>>

\* allowed_file: the text after the last "." is jpg, jpeg, png or gif;
\* the inputs are "p.png" and "p.exe".
allowed_file(filename) ==
    /\ \E i \in 1..Len(filename) : filename[i] = 46
    /\ LET dot == CHOOSE i \in 1..Len(filename) :
                    /\ filename[i] = 46
                    /\ \A j \in (i + 1)..Len(filename) : filename[j] # 46
           ext == SqlLowerAscii(SubSeq(filename, dot + 1, Len(filename)))
       IN ext \in {<<106, 112, 103>>, <<106, 112, 101, 103>>,
                   <<112, 110, 103>>, <<103, 105, 102>>}

\* POST /entry, up to file.save: validation, then the photo is written to
\* UPLOAD_DIR under a fresh name.  photo_path 0 stands for NULL.
entry_submit(s, first, last, costume, photo) ==
    /\ Idle(s) /\ EnsureOk /\ EnsureDb
    /\ entrySeq + EntriesInFlight < MaxEntries
    /\ IF Strip(first) = <<>> \/ Strip(last) = <<>> \/ Strip(costume) = <<>>
       THEN /\ Reply(s, "entry_submit", "to_form_error")
            /\ UNCHANGED <<uploads, uploadSeq, pc, local>>
       ELSE IF photo # <<>> /\ ~allowed_file(photo)
       THEN /\ Reply(s, "entry_submit", "to_form_error")
            /\ UNCHANGED <<uploads, uploadSeq, pc, local>>
       ELSE /\ IF photo # <<>>
               THEN /\ uploadSeq' = uploadSeq + 1
                    /\ uploads' = uploads \cup {uploadSeq + 1}
               ELSE UNCHANGED <<uploads, uploadSeq>>
            /\ local' = [local EXCEPT ![s] =
                    [NoLocal EXCEPT !.first_name = Strip(first),
                                    !.last_name = Strip(last),
                                    !.costume_name = Strip(costume),
                                    !.photo_path = IF photo # <<>>
                                                   THEN uploadSeq + 1 ELSE 0]]
            /\ Goto(s, "entry_insert")
            /\ UNCHANGED <<resp, shown>>
    /\ UNCHANGED <<entries, entrySeq, votes, voteSeq, vote_items, session>>

\* POST /entry: INSERT INTO entries, in a transaction of its own.
entry_insert(s) ==
    /\ pc[s] = "entry_insert"
    /\ entries' = entries \cup
          {[id |-> entrySeq + 1,
            first_name |-> local[s].first_name,
            last_name |-> local[s].last_name,
            costume_name |-> local[s].costume_name,
            photo_path |-> local[s].photo_path,
            created_at |-> UtcNow(entrySeq)]}
    /\ entrySeq' = entrySeq + 1
    /\ local' = [local EXCEPT ![s] = NoLocal]
    /\ Goto(s, "idle")
    /\ Reply(s, "entry_submit", "submitted")
    /\ UNCHANGED <<categories, catSeq, uploads, uploadSeq, voting_enabled,
                   votes, voteSeq, vote_items, session>>

(***************************************************************************)
(* Admin                                                                   *)
(***************************************************************************)

\* is_admin(): session.get("admin", False) is True
is_admin(s) == session[s].admin
Admitted(s) == is_admin(s)

\* require_admin() failed: abort(403); ensure_db has run, nothing else.
Forbidden(s, h) ==
    /\ EnsureDb
    /\ Reply(s, h, "403")
    /\ UNCHANGED <<entries, entrySeq, uploads, uploadSeq, votes, voteSeq,
                   vote_items, session, pc, local>>

\* POST /admin/login
admin_login(s, pwd) ==
    /\ Idle(s) /\ EnsureOk /\ EnsureDb
    /\ IF pwd = ADMIN_PASSWORD
       THEN /\ session' = [session EXCEPT ![s].admin = TRUE]
            /\ Reply(s, "admin_login", "logged_in")
       ELSE /\ UNCHANGED session
            /\ Reply(s, "admin_login", "invalid_password")
    /\ UNCHANGED <<entries, entrySeq, uploads, uploadSeq, votes, voteSeq,
                   vote_items, pc, local>>

\* POST /admin/logout: session.clear()
admin_logout(s) ==
    /\ Idle(s) /\ EnsureOk /\ EnsureDb
    /\ session' = [session EXCEPT ![s] = NoSession]
    /\ Reply(s, "admin_logout", "logged_out")
    /\ UNCHANGED <<entries, entrySeq, uploads, uploadSeq, votes, voteSeq,
                   vote_items, pc, local>>

\* POST /admin/toggle_voting, up to get_setting (a transaction of its own).
toggle_voting(s) ==
    /\ Idle(s) /\ EnsureOk
    /\ IF ~Admitted(s) THEN Forbidden(s, "toggle_voting")
       ELSE /\ EnsureDb
            /\ local' = [local EXCEPT ![s] = [NoLocal EXCEPT !.current = InitDbSetting]]
            /\ Goto(s, "toggle_set")
            /\ UNCHANGED <<entries, entrySeq, uploads, uploadSeq, votes,
                           voteSeq, vote_items, session, resp, shown>>

\* POST /admin/toggle_voting: set_setting (INSERT ... ON CONFLICT DO UPDATE).
toggle_voting_set(s) ==
    /\ pc[s] = "toggle_set"
    /\ voting_enabled' = IF local[s].current = "1" THEN "0" ELSE "1"
    /\ local' = [local EXCEPT ![s] = NoLocal]
    /\ Goto(s, "idle")
    /\ Reply(s, "toggle_voting",
             IF local[s].current = "0" THEN "enabled" ELSE "disabled")
    /\ UNCHANGED <<categories, catSeq, entries, entrySeq, uploads, uploadSeq,
                   votes, voteSeq, vote_items, session>>

\* POST /admin/category/add
category_add(s, name) ==
    /\ Idle(s) /\ EnsureOk
    /\ IF ~Admitted(s) THEN Forbidden(s, "category_add")
       ELSE /\ voting_enabled' = InitDbSetting
            /\ IF Strip(name) = <<>>
               THEN /\ categories' = InitDbCategories
                    /\ catSeq' = InitDbCatSeq
                    /\ Reply(s, "category_add", "empty_name")
               ELSE IF \E c \in InitDbCategories : c.name = Strip(name)
               THEN /\ categories' = InitDbCategories
                    /\ catSeq' = InitDbCatSeq
                    /\ Reply(s, "category_add", "already_exists")
               ELSE /\ InitDbCatSeq < MaxCatSeq
                    /\ categories' = InitDbCategories \cup
                          {[id |-> InitDbCatSeq + 1, name |-> Strip(name),
                            enabled |-> TRUE]}
                    /\ catSeq' = InitDbCatSeq + 1
                    /\ Reply(s, "category_add", "added")
            /\ UNCHANGED <<entries, entrySeq, uploads, uploadSeq, votes,
                           voteSeq, vote_items, session, pc, local>>

\* POST /admin/category/toggle/<cat_id>
category_toggle(s, cat_id) ==
    /\ Idle(s) /\ EnsureOk
    /\ IF ~Admitted(s) THEN Forbidden(s, "category_toggle")
       ELSE /\ voting_enabled' = InitDbSetting
            /\ catSeq' = InitDbCatSeq
            /\ IF ~\E c \in InitDbCategories : c.id = cat_id
               THEN /\ categories' = InitDbCategories
                    /\ Reply(s, "category_toggle", "404")
               ELSE /\ categories' =
                        {IF c.id = cat_id THEN [c EXCEPT !.enabled = ~c.enabled]
                                          ELSE c : c \in InitDbCategories}
                    /\ Reply(s, "category_toggle", "updated")
            /\ UNCHANGED <<entries, entrySeq, uploads, uploadSeq, votes,
                           voteSeq, vote_items, session, pc, local>>

\* POST /admin/category/rename/<cat_id>: UPDATE categories SET name=? WHERE
\* id=?; no row is looked up first, so an unknown id updates nothing and
\* the handler still reports the rename.
category_rename(s, cat_id, new_name) ==
    /\ Idle(s) /\ EnsureOk
    /\ IF ~Admitted(s) THEN Forbidden(s, "category_rename")
       ELSE /\ voting_enabled' = InitDbSetting
            /\ catSeq' = InitDbCatSeq
            /\ IF Strip(new_name) = <<>>
               THEN /\ categories' = InitDbCategories
                    /\ Reply(s, "category_rename", "empty_name")
               ELSE IF /\ \E c \in InitDbCategories : c.id = cat_id
                       /\ \E c \in InitDbCategories :
                             c.id # cat_id /\ c.name = Strip(new_name)
               THEN /\ categories' = InitDbCategories
                    /\ Reply(s, "category_rename", "already_exists")
               ELSE /\ categories' =
                        {IF c.id = cat_id THEN [c EXCEPT !.name = Strip(new_name)]
                                          ELSE c : c \in InitDbCategories}
                    /\ Reply(s, "category_rename", "renamed")
            /\ UNCHANGED <<entries, entrySeq, uploads, uploadSeq, votes,
                           voteSeq, vote_items, session, pc, local>>

\* A build without PRAGMA foreign_keys = ON: nothing cascades.
NoCascade(items, id) == items

\* ON DELETE CASCADE of vote_items.entry_id
CascadeEntry(items, entry_id) == {vi \in items : vi.entry_id # entry_id}

\* ON DELETE CASCADE of vote_items.category_id
CascadeCategory(items, cat_id) == {vi \in items : vi.category_id # cat_id}

\* An entry delete that also removes the Votes that chose the entry.
entry_delete_with_votes(s, entry_id) ==
    /\ Idle(s) /\ EnsureOk
    /\ IF ~Admitted(s) THEN Forbidden(s, "entry_delete")
       ELSE /\ EnsureDb
            /\ entries' = {e \in entries : e.id # entry_id}
            /\ vote_items' = CascadeEntry(vote_items, entry_id)
            /\ votes' = {v \in votes : ~\E vi \in vote_items :
                                vi.vote_id = v.id /\ vi.entry_id = entry_id}
            /\ uploads' = uploads \ {e.photo_path : e \in {d \in entries : d.id = entry_id}}
            /\ ReplyWith(s, "entry_delete", "deleted",
                         vote_items \ CascadeEntry(vote_items, entry_id))
            /\ UNCHANGED <<entrySeq, uploadSeq, voteSeq, session, pc, local>>

\* POST /admin/entry/delete/<entry_id>: the row is deleted (no row, no
\* error), its photo file unlinked, and the deletion reported.
entry_delete(s, entry_id) ==
    /\ Idle(s) /\ EnsureOk
    /\ IF ~Admitted(s) THEN Forbidden(s, "entry_delete")
       ELSE /\ EnsureDb
            /\ entries' = {e \in entries : e.id # entry_id}
            /\ vote_items' = CascadeEntry(vote_items, entry_id)
            /\ uploads' = uploads \ {e.photo_path : e \in {d \in entries : d.id = entry_id}}
            /\ ReplyWith(s, "entry_delete", "deleted",
                         vote_items \ CascadeEntry(vote_items, entry_id))
            /\ UNCHANGED <<entrySeq, uploadSeq, votes, voteSeq, session, pc, local>>

\* POST /admin/category/delete/<cat_id>
category_delete(s, cat_id) ==
    /\ Idle(s) /\ EnsureOk
    /\ IF ~Admitted(s) THEN Forbidden(s, "category_delete")
       ELSE /\ voting_enabled' = InitDbSetting
            /\ catSeq' = InitDbCatSeq
            /\ IF ~\E c \in InitDbCategories : c.id = cat_id
               THEN /\ categories' = InitDbCategories
                    /\ UNCHANGED vote_items
                    /\ Reply(s, "category_delete", "404")
               ELSE /\ categories' = {c \in InitDbCategories : c.id # cat_id}
                    /\ vote_items' = CascadeCategory(vote_items, cat_id)
                    /\ ReplyWith(s, "category_delete", "deleted",
                                 vote_items \ CascadeCategory(vote_items, cat_id))
            /\ UNCHANGED <<entries, entrySeq, uploads, uploadSeq, votes,
                           voteSeq, session, pc, local>>

\* The tally of admin_results for one category: for every entry, COUNT of
\* the vote_items joined ON vi.entry_id = e.id AND vi.category_id = ?.
Tally(cat_id, ents, items) ==
    [e \in {d.id : d \in ents} |->
        Cardinality({vi \in items : vi.entry_id = e /\ vi.category_id = cat_id})]

\* The rows of one category's tally: SELECT e.id, e.costume_name,
\* COUNT(vi.id) ... FROM entries e LEFT JOIN vote_items vi ... GROUP BY e.id
TallyRows(cat_id, ents, items) ==
    {[entry_id |-> e.id, costume_name |-> e.costume_name,
      votes |-> Tally(cat_id, ents, items)[e.id]] : e \in ents}

\* An ordering by costume name alone.
RowBeforeByName(a, b) == TextLess(a.costume_name, b.costume_name)

\* ORDER BY votes DESC, e.costume_name ASC: row a sorts before row b.
RowBefore(a, b) ==
    \/ a.votes > b.votes
    \/ a.votes = b.votes /\ TextLess(a.costume_name, b.costume_name)

\* The row sequences the ORDER BY admits: rows equal in both sort keys may
\* come in either order.
TallyOrders(cat_id, ents, items) ==
    LET rows == TallyRows(cat_id, ents, items)
        n == Cardinality(rows)
    IN {p \in [1..n -> rows] :
          /\ \A i \in 1..n, j \in 1..n : i # j => p[i] # p[j]
          /\ \A i \in 1..n, j \in 1..n : i < j => ~RowBefore(p[j], p[i])}

\* SELECT COUNT(*) FROM vote_items WHERE category_id=?
Participation(cat_id, items) ==
    Cardinality({vi \in items : vi.category_id = cat_id})

\* The rows of admin_audit and admin_audit_csv: votes JOIN vote_items JOIN
\* categories JOIN entries, one row per joined combination.
AuditRows ==
    {<<v, vi, c, e>> \in votes \X vote_items \X categories \X entries :
        /\ vi.vote_id = v.id
        /\ c.id = vi.category_id
        /\ e.id = vi.entry_id}

\* GET /admin/results, /admin/audit, /admin/audit.csv: admin-only pages
\* that only read.
AdminPages == {"admin_results", "admin_audit", "admin_audit_csv"}

admin_page(s, h) ==
    /\ Idle(s) /\ EnsureOk
    /\ IF ~Admitted(s) THEN Forbidden(s, h)
       ELSE /\ EnsureDb
            /\ Reply(s, h, "page")
            /\ UNCHANGED <<entries, entrySeq, uploads, uploadSeq, votes,
                           voteSeq, vote_items, session, pc, local>>

\* POST /admin/purge, up to the deletion of the uploaded files.
admin_purge(s) ==
    /\ Idle(s) /\ EnsureOk
    /\ InitDbCatSeq + Len(DefaultCategories) <= MaxCatSeq
    /\ IF ~Admitted(s) THEN Forbidden(s, "admin_purge")
       ELSE /\ EnsureDb
            /\ uploads' = {}
            /\ Goto(s, "purge_delete")
            /\ UNCHANGED <<entries, entrySeq, uploadSeq, votes, voteSeq,
                           vote_items, session, local, resp, shown>>

\* POST /admin/purge: the five DELETEs, one transaction.
admin_purge_delete(s) ==
    /\ pc[s] = "purge_delete"
    /\ vote_items' = {}
    /\ votes' = {}
    /\ entries' = {}
    /\ categories' = {}
    /\ voting_enabled' = "none"
    /\ Goto(s, "purge_init")
    /\ UNCHANGED <<catSeq, entrySeq, uploads, uploadSeq, voteSeq, session,
                   local, resp, shown>>

\* POST /admin/purge: init_db() reseeds, then the response.
admin_purge_init(s) ==
    /\ pc[s] = "purge_init"
    /\ EnsureOk /\ EnsureDb
    /\ Goto(s, "idle")
    /\ Reply(s, "admin_purge", "purged")
    /\ UNCHANGED <<entries, entrySeq, uploads, uploadSeq, votes, voteSeq,
                   vote_items, session, local>>

(***************************************************************************)
(* Specification                                                           *)
(***************************************************************************)

\* The database as init_db seeds it, after the admin has cut the seeded
\* list down to the two categories in use (ids 1 and 2); voting is off and
\* no session exists yet.
Init ==
    /\ categories = {c \in SeedRows(0) : c.id \in {1, 2}}
    /\ catSeq = Len(DefaultCategories)
    /\ entries = {}
    /\ entrySeq = 0
    /\ uploads = {}
    /\ uploadSeq = 0
    /\ voting_enabled = "0"
    /\ votes = {}
    /\ voteSeq = 0
    /\ vote_items = {}
    /\ session = [s \in Sessions |-> NoSession]
    /\ pc = [s \in Sessions |-> "idle"]
    /\ local = [s \in Sessions |-> NoLocal]
    /\ resp = [s |-> "none", h |-> "none", r |-> "none", d |-> {}]
    /\ shown = [s \in Sessions |-> {}]

\* The wizard and the admin side by side: the voter's browser s1 walks the
\* wizard while the admin's browser s2 logs in, opens and closes voting,
\* submits entries, deletes the first one and enables or disables the
\* category "Funniest Costume" (id 2, the first step while it is enabled).
Next ==
    \/ admin_login("s2", ADMIN_PASSWORD)
    \/ toggle_voting("s2")
    \/ toggle_voting_set("s2")
    \/ entry_submit("s2", Person, Person, Bat, <<>>)
    \/ entry_insert("s2")
    \/ entry_delete("s2", 1)
    \/ category_toggle("s2", 2)
    \/ vote_name_post("s1", LowerA, LowerE)
    \/ vote_step("s1", 0)
    \/ \E idx \in {0, 1}, choice \in {Choice1, Choice2} :
            vote_step_post("s1", idx, choice, "finish")
    \/ vote_finish("s1")
    \/ vote_finish_select("s1")
    \/ vote_finish_insert("s1")

Spec == Init /\ [][Next]_vars

\* Two voters' browsers finalize under names that differ at most in case,
\* after the admin (in s2) has opened voting and one entry was submitted.
NextDup ==
    \/ admin_login("s2", ADMIN_PASSWORD)
    \/ toggle_voting("s2")
    \/ toggle_voting_set("s2")
    \/ (entrySeq = 0 /\ entry_submit("s2", Person, Person, Bat, <<>>))
    \/ entry_insert("s2")
    \/ vote_name_post("s1", LowerA, LowerE)
    \/ \E name \in {<<UpperA, LowerE>>, <<LowerA, UpperE>>, <<Blank, LowerE>>} :
            vote_name_post("s2", name[1], name[2])
    \/ \E s \in Sessions :
        \/ vote_step_post(s, 0, Choice1, "finish")
        \/ vote_finish(s)
        \/ vote_finish_select(s)
        \/ vote_finish_insert(s)

SpecDup == Init /\ [][NextDup]_vars

\* Deletions: the voter votes for up to two entries in two categories, the
\* admin deletes entries and the category "Most Realistic Costume" (id 1).
NextDelete ==
    \/ admin_login("s2", ADMIN_PASSWORD)
    \/ toggle_voting("s2")
    \/ toggle_voting_set("s2")
    \/ entry_submit("s2", Person, Person, Bat, <<>>)
    \/ entry_insert("s2")
    \/ \E entry_id \in {1, 2} : entry_delete("s2", entry_id)
    \/ \E cat_id \in {0, 1} : category_delete("s2", cat_id)
    \/ vote_name_post("s1", LowerA, LowerE)
    \/ \E idx \in {0, 1}, choice \in {Choice1, Choice2} :
            vote_step_post("s1", idx, choice, "finish")
    \/ vote_finish("s1")
    \/ vote_finish_select("s1")
    \/ vote_finish_insert("s1")

SpecDelete == Init /\ [][NextDelete]_vars

\* Every kind of write to the store, purge included: one entry, one
\* selection, and the admin's deletions, rename, toggle and purge.
NextPurge ==
    \/ admin_login("s2", ADMIN_PASSWORD)
    \/ toggle_voting("s2")
    \/ toggle_voting_set("s2")
    \/ (entrySeq = 0 /\ entry_submit("s2", Person, Person, Bat, Png))
    \/ entry_insert("s2")
    \/ entry_delete("s2", 1)
    \/ category_delete("s2", 2)
    \/ category_rename("s2", 2, Zed)
    \/ category_toggle("s2", 2)
    \/ admin_page("s2", "admin_audit_csv")
    \/ admin_purge("s2")
    \/ admin_purge_delete("s2")
    \/ admin_purge_init("s2")
    \/ vote_name_post("s1", LowerA, LowerE)
    \/ vote_step_post("s1", 0, Choice1, "finish")
    \/ vote_finish("s1")
    \/ vote_finish_select("s1")
    \/ vote_finish_insert("s1")

SpecPurge == Init /\ [][NextPurge]_vars

\* Admin routes requested with and without the admin flag: either browser
\* logs in (with the right or a wrong password) or out and requests admin
\* actions; the categories table can be emptied by deletion.
NextSeed ==
    \E s \in Sessions :
        \/ \E pwd \in {ADMIN_PASSWORD, "letmein"} : admin_login(s, pwd)
        \/ admin_logout(s)
        \/ home(s)
        \/ toggle_voting(s)
        \/ toggle_voting_set(s)
        \/ (\E name \in {Blank, Zed} : category_add(s, name))
        \/ category_toggle(s, 1)
        \/ category_rename(s, 1, Zed)
        \/ \E cat_id \in {1, 2} : category_delete(s, cat_id)
        \/ entry_delete(s, 1)
        \/ \E h \in AdminPages : admin_page(s, h)
        \/ admin_purge(s)
        \/ admin_purge_delete(s)
        \/ admin_purge_init(s)

SpecSeed == Init /\ [][NextSeed]_vars

\* The wizard of one voter (s1), every navigation and every kind of
\* choice, while the admin (s2) opens and closes voting and switches
\* categories on and off.
NextWizard ==
    \/ admin_login("s2", ADMIN_PASSWORD)
    \/ toggle_voting("s2")
    \/ toggle_voting_set("s2")
    \/ \E cat_id \in {1, 2} : category_toggle("s2", cat_id)
    \/ \E first \in {Blank, LowerA}, last \in {Blank, LowerE} :
          vote_name_post("s1", first, last)
    \/ \E idx \in 0..2 : vote_step("s1", idx)
    \/ \E idx \in 0..2, choice \in {<<>>, Choice1, Choice2, ChoiceX},
          nav \in {"prev", "next", "finish"} :
          vote_step_post("s1", idx, choice, nav)
    \/ vote_finish("s1")
    \/ vote_finish_select("s1")
    \/ vote_finish_insert("s1")

SpecWizard == Init /\ [][NextWizard]_vars

\* Two voters, one after the other from the same browser (s1), vote in the
\* first category for either of the entries, whose costume names come in
\* either order, and the admin (s2) reads the results.
NextTally ==
    \/ admin_login("s2", ADMIN_PASSWORD)
    \/ toggle_voting("s2")
    \/ toggle_voting_set("s2")
    \/ \E costume \in {Zed, Bat} : entry_submit("s2", Person, Person, costume, <<>>)
    \/ entry_insert("s2")
    \/ admin_page("s2", "admin_results")
    \/ \E first \in {LowerA, Person} : vote_name_post("s1", first, LowerE)
    \/ \E choice \in {Choice1, Choice2} : vote_step_post("s1", 0, choice, "finish")
    \/ vote_finish("s1")
    \/ vote_finish_select("s1")
    \/ vote_finish_insert("s1")

SpecTally == Init /\ [][NextTally]_vars

\* A voter (s1) in the wizard while the admin (s2) deletes the categories:
\* the wizard's requests against an emptied categories table.
NextReseed ==
    \/ admin_login("s2", ADMIN_PASSWORD)
    \/ toggle_voting("s2")
    \/ toggle_voting_set("s2")
    \/ \E cat_id \in {1, 2} : category_delete("s2", cat_id)
    \/ \E first \in {Blank, LowerA} : vote_name_post("s1", first, LowerE)
    \/ \E choice \in {<<>>, Choice1, ChoiceX} :
          vote_step_post("s1", 0, choice, "next")

SpecReseed == Init /\ [][NextReseed]_vars

\* A voter (s1) on the category steps while the admin (s2) adds, renames,
\* enables, disables and deletes categories between the voter's requests.
NextShift ==
    \/ admin_login("s2", ADMIN_PASSWORD)
    \/ toggle_voting("s2")
    \/ toggle_voting_set("s2")
    \/ category_add("s2", Bat)
    \/ \E cat_id \in {1, 2} : category_toggle("s2", cat_id)
    \/ category_rename("s2", 1, Zed)
    \/ category_delete("s2", 2)
    \/ \E idx \in {0, 1} : vote_step("s1", idx)
    \/ \E idx \in {0, 1}, choice \in {Choice1, Choice2} :
          vote_step_post("s1", idx, choice, "next")

SpecShift == Init /\ [][NextShift]_vars

\* One browser (s1) used under two names: every selection is posted while
\* the stored first name is "a"; the name "X" is stored by a later
\* NameCapture POST, after which the browser only finalizes.
NextRename ==
    \/ admin_login("s2", ADMIN_PASSWORD)
    \/ toggle_voting("s2")
    \/ toggle_voting_set("s2")
    \/ (entrySeq = 0 /\ entry_submit("s2", Person, Person, Bat, <<>>))
    \/ entry_insert("s2")
    \/ \E first \in {LowerA, Person} : vote_name_post("s1", first, LowerE)
    \/ /\ session["s1"].voter_first = Strip(LowerA)
       /\ \E idx \in {0, 1}, nav \in {"next", "finish"} :
             vote_step_post("s1", idx, Choice1, nav)
    \/ vote_finish("s1")
    \/ vote_finish_select("s1")
    \/ vote_finish_insert("s1")

SpecRename == Init /\ [][NextRename]_vars

(***************************************************************************)
(* Properties                                                              *)
(***************************************************************************)

\* The draft of session s, as vote_finish reads it.
DraftFirst(s) == Strip(session[s].voter_first)
DraftLast(s) == Strip(session[s].voter_last)

\* The same voter name up to the case of its letters.
SameNameUpToCase(v, first, last) ==
    /\ CaseFold(v.voter_first) = CaseFold(first)
    /\ CaseFold(v.voter_last) = CaseFold(last)

NoDraft(sess) ==
    /\ sess.voter_first = Absent
    /\ sess.voter_last = Absent
    /\ sess.ballot = EmptyBallot

\* C1: a Finalize that passes the duplicate check creates exactly one Vote,
\* and once a Vote exists for a name, every Finalize whose draft name equals
\* it up to case ends in the duplicate outcome and leaves the Votes and the
\* VoteItems as they were.
C1_LaterFinalizeIsDuplicate ==
    [][\A s \in Sessions :
        /\ vote_finish_insert(s) => Cardinality(votes' \ votes) = 1
        /\ (/\ vote_finish_select(s)
            /\ \E v \in votes : SameNameUpToCase(v, DraftFirst(s), DraftLast(s)))
           => /\ resp'.s = s /\ resp'.r = "duplicate"
              /\ pc'[s] = "idle"
              /\ votes' = votes
              /\ vote_items' = vote_items]_vars

\* C2: no reachable state holds two Votes with the same normalized name
\* (lower(first), lower(last)), however the check and insert steps of
\* concurrent Finalize requests interleave.
C2_NoTwoVotesSameNormalizedName ==
    \A v \in votes, w \in votes :
        (/\ LOWER(v.voter_first) = LOWER(w.voter_first)
         /\ LOWER(v.voter_last) = LOWER(w.voter_last))
        => v.id = w.id

\* C6: a Finalize that finds an existing Vote for the draft's name is
\* rejected as duplicate, writes nothing to the Store and discards the
\* draft: the session then holds no voter_first, voter_last or ballot.
C6_DuplicateDiscardsDraft ==
    [][\A s \in Sessions :
        (/\ vote_finish_select(s)
         /\ Existing(DraftFirst(s), DraftLast(s)) # {})
        => /\ resp'.s = s /\ resp'.r = "duplicate"
           /\ UNCHANGED store
           /\ NoDraft(session'[s])]_vars

\* C3: when the draft holds a selection for a category that is disabled at
\* Finalize, the Finalize creates the Vote, no VoteItem for that category,
\* and the VoteItems of the enabled categories selected.
C3_DisabledCategoryGetsNoItem ==
    [][\A s \in Sessions :
        vote_finish_insert(s) =>
            /\ Cardinality(votes' \ votes) = 1
            /\ \A c \in categories :
                 (c.id \in DOMAIN session[s].ballot /\ ~c.enabled)
                 => ~\E vi \in vote_items' \ vote_items : vi.category_id = c.id
            /\ \A c \in categories :
                 (/\ c.id \in DOMAIN session[s].ballot /\ c.enabled
                  /\ \E e \in entries : e.id = session[s].ballot[c.id])
                 => \E vi \in vote_items' \ vote_items : vi.category_id = c.id]_vars

\* Reached: a ballot was recorded whose draft held a selection (of an
\* existing entry) for a disabled category; the new Vote has an item for
\* another category and none for the disabled one.
C3_Witness ==
    /\ resp.h = "vote_finish" /\ resp.r = "recorded"
    /\ \E draft \in resp.d, c \in categories, v \in votes :
        /\ ~c.enabled
        /\ c.id \in DOMAIN draft.ballot
        /\ \E e \in entries : e.id = draft.ballot[c.id]
        /\ v.id = voteSeq
        /\ ~\E vi \in vote_items : vi.vote_id = v.id /\ vi.category_id = c.id
        /\ \E vi \in vote_items : vi.vote_id = v.id

\* The wizard requests a browser can start: NameCapture POST, CategoryStep
\* GET and POST, Finalize.
WizardRequest(s) ==
    \/ \E first \in {Blank, LowerA}, last \in {LowerE} : vote_name_post(s, first, last)
    \/ \E idx \in 0..2 : vote_step(s, idx)
    \/ \E idx \in 0..2, choice \in {<<>>, Choice1, Choice2, ChoiceX},
          nav \in {"prev", "next", "finish"} : vote_step_post(s, idx, choice, nav)
    \/ vote_finish(s)

\* C4: while voting_enabled is off, every wizard request that starts is
\* refused (closed page or 403) whatever the session holds, and changes no
\* Vote, VoteItem or Entry and nothing of the session draft.
C4_ClosedGateRefuses ==
    [][\A s \in Sessions :
        (/\ voting_enabled # "1"
         /\ pc[s] = "idle"
         /\ \/ pc'[s] # "idle"
            \/ /\ resp'.s = s
               /\ resp'.h \in {"vote_name_post", "vote_step", "vote_step_post",
                               "vote_finish"}
         /\ WizardRequest(s))
        => /\ resp'.s = s /\ resp'.r \in {"closed", "403"}
           /\ UNCHANGED <<votes, voteSeq, vote_items, entries, entrySeq>>
           /\ session' = session
           /\ pc' = pc]_vars

\* Reached: voting was switched off mid-wizard (the session holds a name
\* and a ballot) and the voter's step POST was refused.
C4_Witness ==
    /\ voting_enabled = "0"
    /\ resp.h = "vote_step_post" /\ resp.r = "403"
    /\ session[resp.s].voter_first # Absent
    /\ session[resp.s].ballot # EmptyBallot

\* C5: a Finalize that passes the duplicate check inserts exactly one Vote
\* and exactly the VoteItems (new vote, c, ballot[c]) of the categories c
\* enabled at Finalize for which the draft has a selection whose entry
\* exists; a selection of a missing entry and a category without selection
\* produce no VoteItem and do not prevent the others.
C5_FinalizeInsertsExactlyTheItems ==
    [][\A s \in Sessions :
        vote_finish_insert(s) =>
            LET new == votes' \ votes
                ballot == session[s].ballot
                chosen == {c \in categories :
                             /\ c.enabled
                             /\ c.id \in DOMAIN ballot
                             /\ \E e \in entries : e.id = ballot[c.id]}
            IN /\ votes \subseteq votes'
               /\ Cardinality(new) = 1
               /\ \A v \in new : /\ v.voter_first = DraftFirst(s)
                                 /\ v.voter_last = DraftLast(s)
               /\ vote_items \subseteq vote_items'
               /\ vote_items' \ vote_items =
                    {[vote_id |-> v.id, category_id |-> c.id,
                      entry_id |-> ballot[c.id]] : v \in new, c \in chosen}]_vars

\* Reached: a ballot was recorded whose draft selected a missing entry in
\* one enabled category and an existing entry in another; the new Vote has
\* the second item only.
C5_Witness ==
    /\ resp.h = "vote_finish" /\ resp.r = "recorded"
    /\ \E draft \in resp.d, c1 \in categories, c2 \in categories :
        /\ c1.enabled /\ c2.enabled
        /\ c1.id \in DOMAIN draft.ballot
        /\ ~\E e \in entries : e.id = draft.ballot[c1.id]
        /\ c2.id \in DOMAIN draft.ballot
        /\ \E e \in entries : e.id = draft.ballot[c2.id]
        /\ {vi \in vote_items : vi.vote_id = voteSeq} =
             {[vote_id |-> voteSeq, category_id |-> c2.id,
               entry_id |-> draft.ballot[c2.id]]}

\* The admin actions a browser can start.
AdminRequest(s) ==
    \/ toggle_voting(s)
    \/ \E name \in {Blank, Zed} : category_add(s, name)
    \/ \E cat_id \in 0..MaxCatSeq : category_toggle(s, cat_id)
    \/ \E cat_id \in 0..MaxCatSeq, name \in {Blank, Zed} : category_rename(s, cat_id, name)
    \/ \E cat_id \in 0..MaxCatSeq : category_delete(s, cat_id)
    \/ \E entry_id \in 0..MaxEntries : entry_delete(s, entry_id)
    \/ admin_purge(s)
    \/ \E h \in AdminPages : admin_page(s, h)

\* C7: every admin action requested from a session without the admin flag
\* is answered 403 and leaves entries, categories, settings, votes and
\* vote items unchanged; the admin flag is set only by a login with the
\* configured password.
C7_AdminActionsFailClosed ==
    [][\A s \in Sessions :
        /\ (~is_admin(s) /\ AdminRequest(s))
           => /\ resp'.s = s /\ resp'.r = "403"
              /\ UNCHANGED <<entries, categories, voting_enabled, votes,
                             vote_items>>
        /\ (~is_admin(s) /\ session'[s].admin)
           => admin_login(s, ADMIN_PASSWORD)]_vars

\* C8: every VoteItem references an existing Vote, an existing Category and
\* an existing Entry, so the audit and CSV rows (the inner join of votes,
\* vote items, categories and entries) are as many as the VoteItems.
C8_AuditRowsAreTheVoteItems ==
    /\ \A vi \in vote_items :
        /\ \E v \in votes : v.id = vi.vote_id
        /\ \E c \in categories : c.id = vi.category_id
        /\ \E e \in entries : e.id = vi.entry_id
    /\ Cardinality(AuditRows) = Cardinality(vote_items)

\* Reached: the admin reads the CSV export while VoteItems exist, after a
\* category has been deleted.
C8_Witness ==
    /\ resp.h = "admin_audit_csv" /\ resp.r = "page"
    /\ vote_items # {}
    /\ Cardinality(categories) = 1
    /\ Cardinality(AuditRows) = Cardinality(vote_items)

\* C9: deleting an existing category as admin succeeds, with or without
\* VoteItems referencing it, removes that category and every VoteItem
\* referencing it, and leaves all Votes, Entries, other Categories and
\* other VoteItems unchanged.
C9_CategoryDeleteCascades ==
    [][\A s \in Sessions, cat_id \in 0..MaxCatSeq :
        (/\ is_admin(s)
         /\ \E c \in categories : c.id = cat_id
         /\ category_delete(s, cat_id))
        => /\ resp'.s = s /\ resp'.r = "deleted"
           /\ categories' = {c \in categories : c.id # cat_id}
           /\ vote_items' = {vi \in vote_items : vi.category_id # cat_id}
           /\ UNCHANGED <<votes, entries>>]_vars

\* Reached: a category with VoteItems was deleted; its items are gone, the
\* Votes and the items of another category remain.
C9_Witness ==
    /\ resp.h = "category_delete" /\ resp.r = "deleted"
    /\ resp.d # {}
    /\ \A vi \in resp.d : /\ vi \notin vote_items
                          /\ \E v \in votes : v.id = vi.vote_id
                          /\ ~\E c \in categories : c.id = vi.category_id
    /\ vote_items # {}

\* C10: deleting an entry as admin removes every VoteItem referencing it
\* and no Vote; the tally computed afterwards, for every category, has no
\* row for the deleted entry and the same counts for the remaining entries.
C10_EntryDeleteCascades ==
    [][\A s \in Sessions, entry_id \in 0..MaxEntries :
        (is_admin(s) /\ entry_delete(s, entry_id))
        => /\ ~\E vi \in vote_items' : vi.entry_id = entry_id
           /\ {vi \in vote_items : vi.entry_id # entry_id} \subseteq vote_items'
           /\ votes' = votes
           /\ \A c \in categories' :
                LET before == Tally(c.id, entries, vote_items)
                    after == Tally(c.id, entries', vote_items')
                IN /\ entry_id \notin DOMAIN after
                   /\ DOMAIN after = DOMAIN before \ {entry_id}
                   /\ \A e \in DOMAIN after : after[e] = before[e]]_vars

\* Reached: an entry with VoteItems was deleted while another entry holds
\* votes; the Votes remain.
C10_Witness ==
    /\ resp.h = "entry_delete" /\ resp.r = "deleted"
    /\ resp.d # {}
    /\ \A vi \in resp.d : /\ \E v \in votes : v.id = vi.vote_id
                          /\ ~\E e \in entries : e.id = vi.entry_id
    /\ \E c \in categories, e \in entries : Tally(c.id, entries, vote_items)[e.id] >= 1

\* The Store as a purge is to leave it: the seven default categories, all
\* enabled, and nothing else; voting off; no file in photo storage.
PurgedStore(cats, ents, vs, items, setting, files) ==
    /\ Cardinality(cats) = Len(DefaultCategories)
    /\ {c.name : c \in cats} = {DefaultCategories[i] : i \in 1..Len(DefaultCategories)}
    /\ \A c \in cats : c.enabled
    /\ ents = {} /\ vs = {} /\ items = {}
    /\ setting = "0"
    /\ files = {}

\* C11: when an admin purge completes, the Store holds exactly the seven
\* seeded default categories (all enabled), no entry, no vote, no vote
\* item, voting_enabled off, and photo storage holds no file, also when
\* entry submissions or finalizes run concurrently with the purge.
C11_PurgeLeavesSeededStore ==
    [][\A s \in Sessions :
        admin_purge_init(s)
        => PurgedStore(categories', entries', votes', vote_items',
                       voting_enabled', uploads')]_vars

\* The enabled categories in name order, as a step POST reads them.
StepCategories == EnabledCategories(categories)

RECURSIVE SumVotes(_)
SumVotes(rows) ==
    IF rows = <<>> THEN 0 ELSE Head(rows).votes + SumVotes(Tail(rows))

\* C13: for every category, the tally lists every Entry once (entries with
\* zero votes included) with count = number of VoteItems linking the entry
\* to the category, in descending order of count and, among equal counts,
\* ascending order of costume name; the counts sum to the category's
\* participation count.
C13_TallyCountsAndOrder ==
    \A c \in categories :
        \A p \in TallyOrders(c.id, entries, vote_items) :
            /\ Len(p) = Cardinality(entries)
            /\ {p[i].entry_id : i \in 1..Len(p)} = {e.id : e \in entries}
            /\ \A i \in 1..Len(p) :
                 p[i].votes = Cardinality({vi \in vote_items :
                                  vi.entry_id = p[i].entry_id /\ vi.category_id = c.id})
            /\ \A i \in 1..Len(p), j \in 1..Len(p) :
                 i < j => /\ p[i].votes >= p[j].votes
                          /\ p[i].votes = p[j].votes
                               => ~TextLess(p[j].costume_name, p[i].costume_name)
            /\ SumVotes(p) = Participation(c.id, vote_items)

\* Reached: the admin reads the results when two entries tie at one vote in
\* a category where the later entry has the smaller costume name, and
\* neither has a vote in the other category.
C13_Witness ==
    /\ resp.h = "admin_results" /\ resp.r = "page"
    /\ \E c \in categories, d \in categories, e \in entries, f \in entries :
        /\ e.id < f.id
        /\ TextLess(f.costume_name, e.costume_name)
        /\ Tally(c.id, entries, vote_items)[e.id] = 1
        /\ Tally(c.id, entries, vote_items)[f.id] = 1
        /\ Tally(d.id, entries, vote_items)[e.id] = 0
        /\ \A p \in TallyOrders(c.id, entries, vote_items) : p[1].entry_id = f.id

\* C14: an admin action addressed to a category id or an entry id that does
\* not exist (category toggle, rename and delete, entry delete) ends in a
\* not-found outcome, not in a success outcome, and leaves the Store
\* unchanged.
C14_UnknownIdIsNotFound ==
    [][\A s \in Sessions :
        (is_admin(s) /\ resp'.s = s) =>
        /\ \A cat_id \in 0..MaxCatSeq :
            (/\ ~\E c \in categories : c.id = cat_id
             /\ \/ category_toggle(s, cat_id)
                \/ category_rename(s, cat_id, Zed)
                \/ category_delete(s, cat_id))
            => resp'.r = "404" /\ UNCHANGED store
        /\ \A entry_id \in 0..MaxEntries :
            (/\ ~\E e \in entries : e.id = entry_id
             /\ entry_delete(s, entry_id))
            => resp'.r = "404" /\ UNCHANGED store]_vars

\* C15: category names are pairwise distinct in every reachable state, and
\* adding a category, or renaming one, to a name held by another category
\* or blank after trimming reports an error and leaves the categories
\* table exactly as it was.
C15_CategoryNamesStayDistinct ==
    [][/\ \A c \in categories', d \in categories' : c.name = d.name => c = d
       /\ \A s \in Sessions :
            (is_admin(s) /\ resp'.s = s) =>
            /\ \A name \in {Blank, Zed} :
                (/\ \/ Strip(name) = <<>>
                    \/ \E c \in categories : c.name = Strip(name)
                 /\ category_add(s, name))
                => /\ resp'.r \in {"empty_name", "already_exists"}
                   /\ categories' = categories
            /\ \A cat_id \in 1..MaxCatSeq, name \in {Blank, Zed} :
                (/\ \E c \in categories : c.id = cat_id
                 /\ \/ Strip(name) = <<>>
                    \/ \E c \in categories : c.id # cat_id /\ c.name = Strip(name)
                 /\ category_rename(s, cat_id, name))
                => /\ resp'.r \in {"empty_name", "already_exists"}
                   /\ categories' = categories]_vars

\* C16: Votes are created only by a successful Finalize and are immutable
\* afterwards: no step changes the voter_first, voter_last or created_at of
\* an existing Vote, and no step other than the purge removes a Vote
\* (category delete, entry delete and category toggle leave the Votes as
\* they are).
C16_VotesImmutable ==
    [][/\ (\E w \in votes' : ~\E v \in votes : v.id = w.id)
            => \E s \in Sessions :
                  /\ vote_finish_insert(s)
                  /\ resp'.r = "recorded"
                  /\ Cardinality(votes' \ votes) = 1
       /\ \A v \in votes, w \in votes' : w.id = v.id => w = v
       /\ (\E v \in votes : v \notin votes')
            => \E s \in Sessions : is_admin(s) /\ admin_purge_delete(s)]_vars

\* Reached: an entry that a Vote had chosen was deleted, the item went with
\* it, and the Vote is still there.
C16_Witness ==
    /\ resp.h = "entry_delete" /\ resp.r = "deleted"
    /\ resp.d # {}
    /\ \A vi \in resp.d : \E v \in votes : v.id = vi.vote_id
    /\ \A v \in votes : ~\E vi \in vote_items : vi.vote_id = v.id

\* C17: past the voting gate, a Finalize request whose session lacks
\* voter_first or voter_last (absent or blank after trimming) sends the
\* voter back to NameCapture with an error and writes nothing: no Vote, no
\* VoteItem, and the draft ballot stays as it was.
C17_FinalizeWithoutNameWritesNothing ==
    [][\A s \in Sessions :
        (/\ pc[s] = "idle" /\ voting_enabled = "1"
         /\ \/ Strip(session[s].voter_first) = <<>>
            \/ Strip(session[s].voter_last) = <<>>
         /\ vote_finish(s))
        => /\ resp'.s = s /\ resp'.r = "to_name_error"
           /\ pc'[s] = "idle"
           /\ UNCHANGED <<votes, voteSeq, vote_items>>
           /\ session'[s].ballot = session[s].ballot]_vars

\* Reached: a voter who filled a ballot without giving a name asked to
\* finalize and was sent back; the ballot is still in the session.
C17_Witness ==
    /\ voting_enabled = "1"
    /\ resp.h = "vote_finish" /\ resp.r = "to_name_error"
    /\ session[resp.s].voter_first = Absent
    /\ session[resp.s].ballot # EmptyBallot
    /\ votes = {}

\* C18: a NameCapture POST past the voting gate re-prompts the voter and
\* leaves the session's voter_first and voter_last as they were if the
\* first or the last name is blank after trimming; otherwise it stores the
\* trimmed names in the session and advances to CategoryStep(0).  It never
\* writes to the Store.
C18_NameCaptureStoresTrimmedNames ==
    [][\A s \in Sessions, first \in {Blank, LowerA}, last \in {Blank, LowerE} :
        (/\ pc[s] = "idle" /\ resp'.s = s /\ resp'.h = "vote_name_post"
         /\ voting_enabled = "1"
         /\ vote_name_post(s, first, last))
        => /\ UNCHANGED store
           /\ IF Strip(first) = <<>> \/ Strip(last) = <<>>
              THEN /\ resp'.r = "to_name_error"
                   /\ session'[s].voter_first = session[s].voter_first
                   /\ session'[s].voter_last = session[s].voter_last
              ELSE /\ session'[s].voter_first = Strip(first)
                   /\ session'[s].voter_last = Strip(last)
                   /\ resp'.r = "to_step"
                   /\ \A n \in resp'.d : n.idx = 0]_vars

\* What a choice field parses to: "1" and "2" are integers, a missing
\* field and "x" are not (0 here).
ParsedChoice(choice) ==
    IF choice = Choice1 THEN 1 ELSE IF choice = Choice2 THEN 2 ELSE 0

\* C19: a CategoryStep POST at a valid index i, past the voting gate, with
\* a choice that parses as an integer sets ballot[id of the i-th enabled
\* category in name order] to that integer and leaves every other ballot
\* key as it was; with a missing or unparsable choice the ballot is left
\* unchanged; in neither case is the Store written.
C19_StepPostSetsOneBallotKey ==
    [][\A s \in Sessions, idx \in 0..2, choice \in {<<>>, Choice1, Choice2, ChoiceX} :
        (/\ pc[s] = "idle" /\ resp'.s = s /\ resp'.h = "vote_step_post"
         /\ resp'.r \in {"to_step", "to_name", "to_finish"}
         /\ \A q \in resp'.d : q.from = idx
         /\ voting_enabled = "1"
         /\ idx < Len(EnabledCategories(categories'))
         /\ \E nav \in {"prev", "next", "finish"} : vote_step_post(s, idx, choice, nav))
        => LET cat_id == EnabledCategories(categories')[idx + 1].id
               old == session[s].ballot
               new == session'[s].ballot
           IN /\ UNCHANGED store
              /\ IF ParsedChoice(choice) # 0
                 THEN /\ DOMAIN new = DOMAIN old \cup {cat_id}
                      /\ new[cat_id] = ParsedChoice(choice)
                      /\ \A c \in DOMAIN old \ {cat_id} : new[c] = old[c]
                 ELSE new = old]_vars

\* C20: a successful Finalize removes exactly the three voting keys
\* (voter_first, voter_last, ballot) from the session and leaves the
\* session's admin flag, and every other session, as they were; a second
\* Finalize from the same session right after it, past the voting gate, is
\* sent back to NameCapture and creates nothing.
C20_FinalizeClearsDraftOnly ==
    [][\A s \in Sessions :
        /\ vote_finish_insert(s)
           => /\ resp'.s = s /\ resp'.r = "recorded"
              /\ NoDraft(session'[s])
              /\ session'[s].admin = session[s].admin
              /\ \A o \in Sessions \ {s} : session'[o] = session[o]
        /\ (/\ resp.s = s /\ resp.h = "vote_finish" /\ resp.r = "recorded"
            /\ voting_enabled = "1"
            /\ vote_finish(s))
           => /\ resp'.s = s /\ resp'.r = "to_name_error"
              /\ pc'[s] = "idle"
              /\ UNCHANGED <<votes, voteSeq, vote_items>>]_vars

\* Reached: a logged-in admin's browser finalized a ballot; the draft
\* (names and a non-empty ballot) is gone from the session and the admin
\* flag is still set.
C20_Witness ==
    /\ resp.h = "vote_finish" /\ resp.r = "recorded"
    /\ session[resp.s].admin
    /\ NoDraft(session[resp.s])
    /\ \E draft \in resp.d : /\ draft.admin
                             /\ draft.voter_first # Absent
                             /\ draft.ballot # EmptyBallot

\* C23: a category name that is not in the Store (never added, or deleted
\* by an admin) appears in it only through an admin's category add, an
\* admin's category rename or a purge; no other request creates a
\* category, also not once the categories table has become empty.
C23_OnlyAdminCreatesCategories ==
    [][(\E c \in categories' : ~\E d \in categories : d.name = c.name)
        => \E s \in Sessions :
              /\ is_admin(s) \/ pc[s] = "purge_init"
              /\ \/ \E name \in {Blank, Zed} : category_add(s, name)
                 \/ \E cat_id \in 0..MaxCatSeq, name \in {Blank, Zed} :
                       category_rename(s, cat_id, name)
                 \/ admin_purge_init(s)]_vars

\* C21: when a session's browser displays the page of step i for category C
\* and the session POSTs step i with a choice, the draft changes under no key
\* other than C's id, whatever category requests of the admin ran between the
\* GET and the POST.
C21_SelectionStoredUnderShownCategory ==
    [][\A s \in Sessions :
        (/\ pc[s] = "idle"
         /\ resp'.s = s
         /\ resp'.h = "vote_step_post"
         /\ session'[s].ballot # session[s].ballot)
        => \A p \in shown[s] :
              (\E q \in resp'.d : q.from = p.idx)
              => \A c \in DOMAIN session'[s].ballot :
                    (c \notin DOMAIN session[s].ballot
                     \/ session'[s].ballot[c] # session[s].ballot[c])
                    => c = p.category_id]_vars

\* C24: every Vote row is inserted in a state where the setting
\* voting_enabled is on, whatever toggle_voting and purge requests of the
\* admin run between the steps of the Finalize request.
C24_VoteInsertedOnlyWhileEnabled ==
    [][votes' \ votes # {} => voting_enabled = "1"]_vars

\* C22: the VoteItems committed with a Vote come from selections made after
\* the NameCapture POST that stored the Vote's name.  Where every selection
\* of the browser is posted while its stored first name is "a", each
\* selection precedes the NameCapture POST that stored "X", so a Vote
\* committed for "X" has no VoteItem.
C22_ItemsSelectedUnderTheVotesName ==
    [][\A s \in Sessions :
        (/\ vote_finish_insert(s)
         /\ Strip(session[s].voter_first) = Person)
        => vote_items' = vote_items]_vars

====
